---- MODULE Spec2Model ----
(***************************************************************************)
(* GitHub-Multi-Downloader (src/github_downloader.py): the console tool    *)
(* that lists the public repositories of an account, clones a selection    *)
(* of them under <save_path>/<username>/ and, in update mode, pulls every  *)
(* local clone.  Strings are sequences of one-character strings, paths are *)
(* sequences of components, the filesystem is the kind of each entry of    *)
(* the account's base directory, and every external result (HTTP reply,    *)
(* git exit status and output, operator answer) is an input chosen with \E.*)
(***************************************************************************)
EXTENDS Integers, Naturals, Sequences, FiniteSets, TLC

VARIABLES
    pc,                \* position of the process inside main()
    mode,              \* "none" | "download" | "update": the --update flag of the run
    runs,              \* number of invocations of main() so far
    base,              \* <save_path>/<username>: "absent" | "file" | "dir"
    entries,           \* kind of base/<name>: "none" | "file" | "dir"
    gitignore,         \* ./.gitignore: [exists, content]
    appended,          \* number of times update_gitignore wrote the pattern line
    username,          \* the positional argument
    cwd,               \* os.getcwd()
    repos,             \* the listing returned by get_user_repos
    selection,         \* the text typed at Prompt.ask("Selection")
    selected_indices,  \* the parsed selection
    i,                 \* loop position (1-based) of the loop the process is in
    names,             \* os.listdir(base_dir), in the order it was returned
    repos_info,        \* ordered dict repo_name -> status, as a sequence of records
    log,               \* what the current run did: subprocesses, filesystem calls, console output
    exitCode,          \* exit status of the last finished run, -1 while none
    lastDownload       \* how the last download run ended

vars == << pc, mode, runs, base, entries, gitignore, appended, username, cwd, repos,
           selection, selected_indices, i, names, repos_info, log, exitCode, lastDownload >>

---------------------------------------------------------------------------
(* Bounds of the model *)

MaxRuns == 2          \* invocations of main() in one behaviour
MaxTokens == 2        \* comma-separated tokens in a typed selection (rich input set)
MaxLen == 3           \* characters of the initial .gitignore content (SpecIgnore)
MaxSel == 3           \* indices in a selection handed to download_selected_repos (SpecClone)

---------------------------------------------------------------------------
(* Strings *)

\* Python: p in s
Contains(s, p) ==
    \E k \in 0..(Len(s) - Len(p)) : SubSeq(s, k + 1, k + Len(p)) = p

\* Python: s.endswith(p)
EndsWith(s, p) ==
    Len(s) >= Len(p) /\ SubSeq(s, Len(s) - Len(p) + 1, Len(s)) = p

Whitespace == {" ", "\n", "\t"}

RECURSIVE LStrip(_)
LStrip(s) == IF s # <<>> /\ Head(s) \in Whitespace THEN LStrip(Tail(s)) ELSE s

RECURSIVE RStrip(_)
RStrip(s) ==
    IF s # <<>> /\ s[Len(s)] \in Whitespace THEN RStrip(SubSeq(s, 1, Len(s) - 1)) ELSE s

\* Python: s.strip()
Strip(s) == RStrip(LStrip(s))

\* Python: s.split(sep) for a one-character separator: always at least one piece
RECURSIVE Split(_, _)
Split(s, sep) ==
    IF \A k \in 1..Len(s) : s[k] # sep
    THEN << s >>
    ELSE LET k == CHOOSE j \in 1..Len(s) : s[j] = sep /\ \A m \in 1..(j - 1) : s[m] # sep
         IN  << SubSeq(s, 1, k - 1) >> \o Split(SubSeq(s, k + 1, Len(s)), sep)

\* sep.join(parts)
RECURSIVE Join(_, _)
Join(parts, sep) ==
    IF parts = <<>> THEN <<>>
    ELSE IF Len(parts) = 1 THEN parts[1]
    ELSE parts[1] \o sep \o Join(Tail(parts), sep)

\* all sequences over S of length 0..n
RECURSIVE SeqsUpTo(_, _)
SeqsUpTo(S, n) ==
    IF n = 0 THEN { <<>> }
    ELSE LET shorter == SeqsUpTo(S, n - 1)
         IN  shorter \cup { Append(q, x) : q \in { r \in shorter : Len(r) = n - 1 }, x \in S }

---------------------------------------------------------------------------
(* Paths: a path is a sequence of components, a component a string *)

DotDot == << ".", "." >>
Dot == << "." >>

RECURSIVE CommonPrefixLen(_, _)
CommonPrefixLen(p, q) ==
    IF p # <<>> /\ q # <<>> /\ Head(p) = Head(q)
    THEN 1 + CommonPrefixLen(Tail(p), Tail(q))
    ELSE 0

\* os.path.relpath(path, start) for absolute, normalised paths
relpath(path, start) ==
    LET c    == CommonPrefixLen(path, start)
        ups  == [k \in 1..(Len(start) - c) |-> DotDot]
        rest == SubSeq(path, c + 1, Len(path))
    IN  IF ups \o rest = <<>> THEN << Dot >> ELSE ups \o rest

\* the text of a relative path
PathText(p) == Join(p, << "/" >>)

\* self.save_path (an absolute directory)
save_path == << << "d" >> >>

\* os.path.join(self.save_path, username)
base_dir(user) == Append(save_path, user)

---------------------------------------------------------------------------
(* update_gitignore *)

gitignore_absent == [exists |-> FALSE, content |-> <<>>]

\* ignore_pattern = f"{rel_path}/"
ignore_pattern(user, dir) == PathText(relpath(base_dir(user), dir)) \o << "/" >>

\* with open(gitignore_path, 'r') ... except FileNotFoundError: content = ""
read_gitignore(file) == IF file.exists THEN file.content ELSE <<>>

\* Mutant: appends the pattern line without the containment test.
update_gitignore_always(file, user, dir, inside, io_ok) ==
    IF ~inside \/ ~io_ok THEN file
    ELSE LET content == read_gitignore(file)
             pattern == ignore_pattern(user, dir)
             sep     == IF content # <<>> /\ ~EndsWith(content, << "\n" >>) THEN << "\n" >> ELSE <<>>
         IN  [exists |-> TRUE, content |-> content \o sep \o pattern \o << "\n" >>]

\* Mutant: the pattern is looked for as a whole line, not as a substring.
update_gitignore_by_line(file, user, dir, inside, io_ok) ==
    IF ~inside \/ ~io_ok THEN file
    ELSE LET content == read_gitignore(file)
             pattern == ignore_pattern(user, dir)
         IN  IF pattern \notin { Split(content, "\n")[k] : k \in 1..Len(Split(content, "\n")) }
             THEN LET sep == IF content # <<>> /\ ~EndsWith(content, << "\n" >>)
                             THEN << "\n" >> ELSE <<>>
                  IN  [exists |-> TRUE, content |-> content \o sep \o pattern \o << "\n" >>]
             ELSE file

\* The file after update_gitignore(username), lines 60-96.  inside: git rev-parse
\* --is-inside-work-tree exits 0; io_ok: reading and appending the file raise
\* nothing but FileNotFoundError (any other exception leaves the file as it was and
\* is reported as a warning, lines 95-96).
update_gitignore(file, user, dir, inside, io_ok) ==
    IF ~inside \/ ~io_ok THEN file
    ELSE LET content == read_gitignore(file)
             pattern == ignore_pattern(user, dir)
         IN  IF ~Contains(content, pattern)
             THEN LET sep == IF content # <<>> /\ ~EndsWith(content, << "\n" >>)
                             THEN << "\n" >> ELSE <<>>
                  IN  [exists |-> TRUE, content |-> content \o sep \o pattern \o << "\n" >>]
             ELSE file

---------------------------------------------------------------------------
(* The selection typed by the operator: lines 267-275 *)

Digits == { "0", "1", "2", "3", "4", "5", "6", "7", "8", "9" }

DigitVal(c) ==
    CASE c = "0" -> 0 [] c = "1" -> 1 [] c = "2" -> 2 [] c = "3" -> 3 [] c = "4" -> 4
      [] c = "5" -> 5 [] c = "6" -> 6 [] c = "7" -> 7 [] c = "8" -> 8 [] c = "9" -> 9

RECURSIVE DecimalValue(_, _)
DecimalValue(body, acc) ==
    IF body = <<>> THEN acc
    ELSE IF Head(body) = "_" THEN DecimalValue(Tail(body), acc)
    ELSE DecimalValue(Tail(body), 10 * acc + DigitVal(Head(body)))

\* Python int(text) of a decimal literal: surrounding whitespace, one optional sign,
\* digits with single underscores between them; anything else raises ValueError.
int(text) ==
    LET s      == Strip(text)
        signed == s # <<>> /\ Head(s) \in { "+", "-" }
        body   == IF signed THEN Tail(s) ELSE s
        valid  == /\ body # <<>>
                  /\ \A k \in 1..Len(body) : body[k] \in Digits \cup { "_" }
                  /\ body[1] \in Digits
                  /\ body[Len(body)] \in Digits
                  /\ \A k \in 1..(Len(body) - 1) : ~(body[k] = "_" /\ body[k + 1] = "_")
        mag    == DecimalValue(body, 0)
    IN  IF valid
        THEN [ok |-> TRUE, value |-> IF signed /\ Head(s) = "-" THEN 0 - mag ELSE mag]
        ELSE [ok |-> FALSE, value |-> 0]

\* Mutant: the range test of line 271 is dropped at its upper end.
parse_selection_no_upper(text, n) ==
    LET tokens == Split(text, ",")
        parsed == [k \in 1..Len(tokens) |-> int(Strip(tokens[k]))]
    IN  IF \E k \in 1..Len(parsed) : ~parsed[k].ok
        THEN [ok |-> FALSE, indices |-> <<>>]
        ELSE LET idxs == [k \in 1..Len(parsed) |-> parsed[k].value]
             IN  IF \A k \in 1..Len(idxs) : 1 <= idxs[k]
                 THEN [ok |-> TRUE, indices |-> idxs]
                 ELSE [ok |-> FALSE, indices |-> <<>>]

\* lines 269-273: [int(idx.strip()) for idx in selection.split(",")], then the range
\* test against len(repos); ok = FALSE stands for the ValueError.
parse_selection(text, n) ==
    LET tokens == Split(text, ",")
        parsed == [k \in 1..Len(tokens) |-> int(Strip(tokens[k]))]
    IN  IF \E k \in 1..Len(parsed) : ~parsed[k].ok
        THEN [ok |-> FALSE, indices |-> <<>>]
        ELSE LET idxs == [k \in 1..Len(parsed) |-> parsed[k].value]
             IN  IF \A k \in 1..Len(idxs) : 1 <= idxs[k] /\ idxs[k] <= n
                 THEN [ok |-> TRUE, indices |-> idxs]
                 ELSE [ok |-> FALSE, indices |-> <<>>]

\* list(range(1, len(repos) + 1))
all_indices(n) == [k \in 1..n |-> k]

---------------------------------------------------------------------------
(* What a run does, in order: one record per subprocess, filesystem call,   *)
(* HTTP call, prompt and console message.                                  *)

Ev(op, name, ok, out) == [op |-> op, name |-> name, ok |-> ok, out |-> out]

\* the git subcommands
GitOps == { "git clone", "git rev-parse --is-inside-work-tree", "git rev-parse --abbrev-ref HEAD",
            "git rev-parse --short HEAD", "git log", "git status --porcelain", "git pull" }

---------------------------------------------------------------------------
(* Repository records and the filesystem under the base directory *)

Repo(n) == [name |-> n, clone_url |-> "https://github.com/octocat/" \o n \o ".git"]

HelloWorld == Repo("Hello-World")
SpoonKnife == Repo("Spoon-Knife")

\* names an entry of the base directory can have
EntryNames == { "Hello-World", "Spoon-Knife" }

EntryKinds == { "none", "file", "dir" }

Empty == [n \in EntryNames |-> "none"]

\* os.path.exists(os.path.join(base_dir, repo_name))
path_exists(ents, name) == ents[name] # "none"

\* os.path.isdir(os.path.join(base_dir, repo_name))
isdir(ents, name) == ents[name] = "dir"

\* Mutant: git is given another target, so the directory tested next time stays absent.
download_repo_elsewhere(ents, repo, created) ==
    [entries |-> ents,
     log     |-> << Ev("git clone", repo.name, created, << repo.clone_url >>) >>]

\* download_repo: os.system("git clone url target"); the exit status is dropped, so
\* the only effect is whether git created the target directory.
download_repo(ents, repo, created) ==
    [entries |-> IF created /\ ents[repo.name] = "none"
                 THEN [ents EXCEPT ![repo.name] = "dir"] ELSE ents,
     log     |-> << Ev("git clone", repo.name, created, << repo.clone_url >>) >>]

\* Mutant: the record of the next listing position is taken (idx instead of idx - 1).
selected_repo_off_by_one(rs, idx) == rs[(idx % Len(rs)) + 1]

\* line 220: repo = repos[idx - 1]
selected_repo(rs, idx) == rs[idx]

\* Mutant: no existence test, every occurrence clones.
download_one_unchecked(ents, repo, created) ==
    LET r == download_repo(ents, repo, created)
    IN  [entries |-> r.entries,
         log |-> << Ev("exists", repo.name, path_exists(ents, repo.name), <<>>) >> \o r.log
                   \o << Ev("progress", repo.name, TRUE, <<>>) >>]

\* lines 220-230: one iteration of the loop of download_selected_repos
download_one(ents, repo, created) ==
    IF ~path_exists(ents, repo.name)
    THEN LET r == download_repo(ents, repo, created)
         IN  [entries |-> r.entries,
              log |-> << Ev("exists", repo.name, FALSE, <<>>) >> \o r.log
                        \o << Ev("progress", repo.name, TRUE, <<>>) >>]
    ELSE [entries |-> ents,
          log |-> << Ev("exists", repo.name, TRUE, <<>>),
                     Ev("skip", repo.name, TRUE, <<>>),
                     Ev("progress", repo.name, TRUE, <<>>) >>]

---------------------------------------------------------------------------
(* get_repo_status and update_repo *)

None == <<>>

Some(x) == << x >>

StatusInfo == [branch |-> "main", commit |-> "abc1234", date |-> "2024-01-01", status |-> "clean"]

StatusQueries == << "git rev-parse --abbrev-ref HEAD", "git rev-parse --short HEAD", "git log" >>

\* Mutant: a failure of the last query still yields a (partial) status.
get_repo_status_partial(name, failAt) ==
    [info |-> IF failAt \in { 0, 3 } THEN Some(StatusInfo) ELSE None,
     log  |-> [k \in 1..(IF failAt = 0 THEN 3 ELSE failAt) |->
                   Ev(StatusQueries[k], name, k # failAt, <<>>)]]

\* lines 98-132: failAt = 0 when the three queries exit 0, else the first query with a
\* non-zero exit (CalledProcessError; the later queries are not run).
get_repo_status(name, failAt) ==
    [info |-> IF failAt = 0 THEN Some(StatusInfo) ELSE None,
     log  |-> [k \in 1..(IF failAt = 0 THEN 3 ELSE failAt) |->
                   Ev(StatusQueries[k], name, k # failAt, <<>>)]]

\* outputs git status --porcelain gives: nothing for a clean tree, else one
\* "XY path" line per changed path
PorcelainOutputs ==
    { <<>>,
      << " ", "M", " ", "a", "\n" >>,
      << "?", "?", " ", "b", "\n" >>,
      << " ", "M", " ", "a", "\n", "?", "?", " ", "b", "\n" >> }

MsgUncommitted == << "Repository", "has", "uncommitted", "changes" >>
MsgUpdated == << "Successfully", "updated" >>
MsgUpdateFailed == << "Update", "failed:", "<stderr>" >>
MsgStatusError == << "Error", "updating", "repository:", "<CalledProcessError>" >>

\* Mutant: the pull is run whatever the status query printed.
update_repo_no_check(name, raised, out, rc) ==
    IF raised
    THEN [success |-> FALSE, message |-> MsgStatusError,
          log |-> << Ev("git status --porcelain", name, FALSE, <<>>) >>]
    ELSE [success |-> rc = 0,
          message |-> IF rc = 0 THEN MsgUpdated ELSE MsgUpdateFailed,
          log |-> << Ev("git status --porcelain", name, TRUE, out),
                     Ev("git pull", name, rc = 0, <<>>) >>]

\* lines 134-161: raised = the status query exits non-zero, out = its standard output,
\* rc = the exit status of git pull
update_repo(name, raised, out, rc) ==
    IF raised
    THEN [success |-> FALSE, message |-> MsgStatusError,
          log |-> << Ev("git status --porcelain", name, FALSE, <<>>) >>]
    ELSE IF Strip(out) # <<>>
    THEN [success |-> FALSE, message |-> MsgUncommitted,
          log |-> << Ev("git status --porcelain", name, TRUE, out) >>]
    ELSE [success |-> rc = 0,
          message |-> IF rc = 0 THEN MsgUpdated ELSE MsgUpdateFailed,
          log |-> << Ev("git status --porcelain", name, TRUE, out),
                     Ev("git pull", name, rc = 0, <<>>) >>]

---------------------------------------------------------------------------
(* Inputs *)

Octocat == << "o", "c", "t", "o", "c", "a", "t" >>

\* the working directory of the runs of main(): outside the save directory
WorkDir == << << "w" >> >>

\* listings the platform returns (its own order)
Listings == { <<>>, << HelloWorld >>, << HelloWorld, SpoonKnife >> }

\* outcomes of requests.get + raise_for_status + json (lines 52-54)
Responses ==
    { [kind |-> "ok", repos |-> l] : l \in Listings }
    \cup { [kind |-> k, repos |-> <<>>] : k \in { "404", "http_error", "connection_error" } }

\* a few texts typed at the Selection prompt
Selections ==
    { << "1" >>, << "2" >>, << "1", ",", "1" >>, << "2", ",", " ", "1" >>,
      << "3" >>, << "1", ",", "x" >> }

\* tokens of the rich input set: in range, out of range, signed, padded, malformed
Tokens ==
    { << "1" >>, << "2" >>, << "3" >>, << "0" >>, <<>>, << "x" >>, << " ", "1" >>,
      << "2", " " >>, << "-", "1" >>, << "+", "2" >>, << "1", "_" >>, << "0", "_", "2" >>,
      << "1", " ", "2" >> }

\* every text made of 1..MaxTokens tokens separated by commas
RichSelections ==
    { Join(ts, << "," >>) : ts \in SeqsUpTo(Tokens, MaxTokens) \ { <<>> } }

\* .gitignore before the first run: none, one holding the pattern inside a longer
\* line, one whose last line has no newline
InitIgnores ==
    { gitignore_absent,
      [exists |-> TRUE, content |-> << "x" >> \o ignore_pattern(Octocat, WorkDir) \o << "y", "\n" >>],
      [exists |-> TRUE, content |-> << "*", ".", "o" >>] }

\* all orders of a finite set
RECURSIVE Orders(_)
Orders(S) ==
    IF S = {} THEN { <<>> }
    ELSE UNION { { << x >> \o o : o \in Orders(S \ { x }) } : x \in S }

---------------------------------------------------------------------------
(* Initial state: nothing has run; the filesystem is whatever earlier use left *)

Init ==
    /\ pc = "idle"
    /\ mode = "none"
    /\ runs = 0
    /\ base \in { "absent", "file", "dir" }
    /\ entries \in [EntryNames -> EntryKinds]
    /\ base # "dir" => entries = Empty
    /\ gitignore \in InitIgnores
    /\ appended = 0
    /\ username = Octocat
    /\ cwd = WorkDir
    /\ repos = <<>>
    /\ selection = <<>>
    /\ selected_indices = <<>>
    /\ i = 0
    /\ names = <<>>
    /\ repos_info = <<>>
    /\ log = <<>>
    /\ exitCode = -1
    /\ lastDownload = "none"

fsVars == << base, entries >>
ignoreVars == << gitignore, appended >>
argVars == << username, cwd >>
downloadVars == << repos, selection, selected_indices >>
updateVars == << names, repos_info >>

\* the run ends: return from main() (code 0) or sys.exit / uncaught exception (code 1)
Finish(code, outcome, events) ==
    /\ pc' = "exited"
    /\ exitCode' = code
    /\ log' = log \o events
    /\ lastDownload' = IF mode = "download" THEN outcome ELSE lastDownload

---------------------------------------------------------------------------
(* main: lines 344-354 *)

main(update, limit) ==
    /\ pc \in { "idle", "exited" }
    /\ runs < limit
    /\ runs' = runs + 1
    /\ mode' = IF update THEN "update" ELSE "download"
    /\ pc' = IF update THEN "u_exists" ELSE "d_makedirs"
    /\ exitCode' = -1
    /\ log' = << Ev("print", "save_path", TRUE, <<>>) >>
    /\ repos' = <<>>
    /\ selection' = <<>>
    /\ selected_indices' = <<>>
    /\ i' = 0
    /\ names' = <<>>
    /\ repos_info' = <<>>
    /\ UNCHANGED << fsVars, ignoreVars, argVars, lastDownload >>

MainDownload == main(FALSE, MaxRuns)

MainUpdate == main(TRUE, MaxRuns)

---------------------------------------------------------------------------
(* download_all_repos: lines 232-294 *)

\* Mutant: the base directory is not created (the makedirs call is lost).
makedirs_skipped(b, ok) == [raised |-> FALSE, base |-> b]

\* os.makedirs(base_dir, exist_ok=True): ok = the operating system allows the creation
makedirs(b, ok) ==
    IF b = "dir" THEN [raised |-> FALSE, base |-> "dir"]
    ELSE IF b = "file" THEN [raised |-> TRUE, base |-> "file"]
    ELSE IF ok THEN [raised |-> FALSE, base |-> "dir"]
    ELSE [raised |-> TRUE, base |-> "absent"]

\* lines 236-241
DMakedirs ==
    /\ pc = "d_makedirs"
    /\ \E ok \in BOOLEAN :
         LET r == makedirs(base, ok)
         IN  /\ base' = r.base
             /\ IF r.raised
                THEN Finish(1, "mkdir_failed",
                            << Ev("makedirs", "base_dir", FALSE, <<>>),
                               Ev("error", "could_not_create_directory", TRUE, <<>>) >>)
                ELSE /\ pc' = "d_fetch"
                     /\ log' = Append(log, Ev("makedirs", "base_dir", TRUE, <<>>))
                     /\ UNCHANGED << exitCode, lastDownload >>
    /\ UNCHANGED << mode, runs, entries, ignoreVars, argVars, downloadVars, i, updateVars >>

\* Mutant: the catch-all handler of lines 292-294 reports the error and returns.
handler_exit_swallow(kind) == IF kind = "connection_error" THEN 0 ELSE 1

\* lines 286-294: both handlers end in sys.exit(1)
handler_exit(kind) == IF kind \in { "404", "http_error", "connection_error" } THEN 1 ELSE 0

\* lines 244-259 and the handlers of lines 286-294
DFetch ==
    /\ pc = "d_fetch"
    /\ \E resp \in Responses :
         LET get == Ev("GET", "/users/{username}/repos", resp.kind = "ok", <<>>)
         IN  CASE resp.kind = "404" ->
                    /\ Finish(handler_exit(resp.kind), "not_found", << get, Ev("error", "user_not_found", TRUE, <<>>) >>)
                    /\ UNCHANGED repos
               [] resp.kind = "http_error" ->
                    /\ Finish(handler_exit(resp.kind), "http_error", << get, Ev("error", "http_error", TRUE, <<>>) >>)
                    /\ UNCHANGED repos
               [] resp.kind = "connection_error" ->
                    /\ Finish(handler_exit(resp.kind), "error", << get, Ev("error", "exception", TRUE, <<>>) >>)
                    /\ UNCHANGED repos
               [] resp.kind = "ok" /\ resp.repos = <<>> ->
                    /\ Finish(0, "empty", << get, Ev("notice", "no_public_repositories", TRUE, <<>>) >>)
                    /\ repos' = resp.repos
               [] resp.kind = "ok" /\ resp.repos # <<>> ->
                    /\ repos' = resp.repos
                    /\ pc' = "d_confirm"
                    /\ log' = log \o << get, Ev("table", "repos", TRUE, <<>>) >>
                    /\ UNCHANGED << exitCode, lastDownload >>
    /\ UNCHANGED << mode, runs, fsVars, ignoreVars, argVars, selection, selected_indices,
                    i, updateVars >>

\* lines 262-263: Confirm.ask("Would you like to download all repositories?")
DConfirm ==
    /\ pc = "d_confirm"
    /\ \E yes \in BOOLEAN :
         /\ log' = Append(log, Ev("confirm", "download_all", yes, <<>>))
         /\ IF yes
            THEN /\ selected_indices' = all_indices(Len(repos))
                 /\ pc' = "d_gitignore"
            ELSE /\ UNCHANGED selected_indices
                 /\ pc' = "d_prompt"
    /\ UNCHANGED << mode, runs, fsVars, ignoreVars, argVars, repos, selection, i, updateVars,
                    exitCode, lastDownload >>

\* lines 266-275: the typed selection is parsed and validated as a whole
DPrompt(texts) ==
    /\ pc = "d_prompt"
    /\ \E text \in texts :
         LET r == parse_selection(text, Len(repos))
         IN  /\ selection' = text
             /\ IF r.ok
                THEN /\ selected_indices' = r.indices
                     /\ pc' = "d_gitignore"
                     /\ log' = Append(log, Ev("prompt", "Selection", TRUE, text))
                     /\ UNCHANGED << exitCode, lastDownload >>
                ELSE /\ UNCHANGED selected_indices
                     /\ Finish(0, "invalid",
                               << Ev("prompt", "Selection", TRUE, text),
                                  Ev("error", "invalid_selection", TRUE, <<>>) >>)
    /\ UNCHANGED << mode, runs, fsVars, ignoreVars, argVars, repos, i, updateVars >>

DPromptFew == DPrompt(Selections)

DPromptRich == DPrompt(RichSelections)

\* what update_gitignore prints and runs
gitignore_events(before, after, inside, io_ok) ==
    << Ev("git rev-parse --is-inside-work-tree", ".", inside, <<>>) >>
    \o (IF inside /\ ~io_ok THEN << Ev("warning", "could_not_update_gitignore", TRUE, <<>>) >>
        ELSE IF after # before THEN << Ev("print", "updated_gitignore", TRUE, <<>>) >>
        ELSE <<>>)

\* line 278: update_gitignore(username)
DGitignore ==
    /\ pc = "d_gitignore"
    /\ \E inside \in BOOLEAN, io_ok \in BOOLEAN :
         LET after == update_gitignore(gitignore, username, cwd, inside, io_ok)
         IN  /\ gitignore' = after
             /\ appended' = IF after # gitignore THEN appended + 1 ELSE appended
             /\ log' = log \o gitignore_events(gitignore, after, inside, io_ok)
    /\ pc' = "d_loop"
    /\ i' = 1
    /\ UNCHANGED << mode, runs, fsVars, argVars, downloadVars, updateVars, exitCode, lastDownload >>

\* lines 219-230: one iteration of download_selected_repos; created = git clone
\* leaves the target directory behind
download_iteration ==
    /\ i <= Len(selected_indices)
    /\ \E created \in BOOLEAN :
         LET r == download_one(entries, selected_repo(repos, selected_indices[i]), created)
         IN  /\ entries' = r.entries
             /\ log' = log \o r.log
    /\ i' = i + 1

\* line 281, inside download_all_repos
DLoop ==
    /\ pc = "d_loop"
    /\ download_iteration
    /\ UNCHANGED << pc, mode, runs, base, ignoreVars, argVars, downloadVars, updateVars,
                    exitCode, lastDownload >>

\* lines 283-284: the completion panel, then return
DPanel ==
    /\ pc = "d_loop"
    /\ i > Len(selected_indices)
    /\ Finish(0, "complete", << Ev("panel", "Download Complete!", TRUE, <<>>) >>)
    /\ UNCHANGED << mode, runs, fsVars, ignoreVars, argVars, downloadVars, i, updateVars >>

---------------------------------------------------------------------------
(* update_all_repos: lines 296-338 *)

\* Mutant: the existence test of line 300 is lost.
base_exists_always(b) == TRUE

\* line 300: os.path.exists(base_dir)
base_exists(b) == b # "absent"

\* lines 298-306: the existence test, then os.listdir(base_dir), whose order is
\* arbitrary; listing a path that is no directory raises, and nothing catches it
UExists ==
    /\ pc = "u_exists"
    /\ CASE ~base_exists(base) ->
              /\ Finish(0, "none", << Ev("exists", "base_dir", FALSE, <<>>),
                                      Ev("error", "no_repositories_found", TRUE, <<>>) >>)
              /\ UNCHANGED << names, i >>
         [] base_exists(base) /\ base # "dir" ->
              /\ Finish(1, "none", << Ev("exists", "base_dir", TRUE, <<>>),
                                      Ev("listdir", "base_dir", FALSE, <<>>),
                                      Ev("traceback", "OSError", TRUE, <<>>) >>)
              /\ UNCHANGED << names, i >>
         [] base_exists(base) /\ base = "dir" ->
              /\ \E order \in Orders({ n \in EntryNames : entries[n] # "none" }) :
                   names' = order
              /\ i' = 1
              /\ pc' = "u_inspect"
              /\ log' = log \o << Ev("exists", "base_dir", TRUE, <<>>),
                                  Ev("listdir", "base_dir", TRUE, <<>>) >>
              /\ UNCHANGED << exitCode, lastDownload >>
    /\ UNCHANGED << mode, runs, fsVars, ignoreVars, argVars, downloadVars, repos_info >>

\* lines 306-309: one listed entry; only directories are inspected
UInspect ==
    /\ pc = "u_inspect"
    /\ i <= Len(names)
    /\ IF isdir(entries, names[i])
       THEN \E failAt \in 0..3 :
              LET r == get_repo_status(names[i], failAt)
              IN  /\ repos_info' = Append(repos_info, [name |-> names[i], info |-> r.info])
                  /\ log' = log \o r.log
       ELSE UNCHANGED << repos_info, log >>
    /\ i' = i + 1
    /\ UNCHANGED << pc, mode, runs, fsVars, ignoreVars, argVars, downloadVars, names,
                    exitCode, lastDownload >>

\* lines 312-317: the status table, then Confirm.ask("Would you like to update all repositories?")
UConfirm ==
    /\ pc = "u_inspect"
    /\ i > Len(names)
    /\ \E yes \in BOOLEAN :
         LET events == << Ev("table", "status", TRUE, <<>>), Ev("confirm", "update_all", yes, <<>>) >>
         IN  IF yes
             THEN /\ pc' = "u_loop"
                  /\ i' = 1
                  /\ log' = log \o events
                  /\ UNCHANGED << exitCode, lastDownload >>
             ELSE /\ Finish(0, "none", events)
                  /\ UNCHANGED i
    /\ UNCHANGED << mode, runs, fsVars, ignoreVars, argVars, downloadVars, updateVars >>

\* lines 326-332 for one item of repos_info
update_one(item, raised, out, rc) ==
    IF item.info # None
    THEN LET r == update_repo(item.name, raised, out, rc)
         IN  r.log \o << Ev("update_result", item.name, r.success, r.message) >>
                   \o (IF ~r.success THEN << Ev("warning", item.name, TRUE, r.message) >> ELSE <<>>)
                   \o << Ev("progress", item.name, TRUE, <<>>) >>
    ELSE << Ev("progress", item.name, TRUE, <<>>) >>

\* lines 326-332: one iteration of the update loop
ULoop ==
    /\ pc = "u_loop"
    /\ i <= Len(repos_info)
    /\ \E raised \in BOOLEAN, out \in PorcelainOutputs, rc \in { 0, 1 } :
         log' = log \o update_one(repos_info[i], raised, out, rc)
    /\ i' = i + 1
    /\ UNCHANGED << pc, mode, runs, fsVars, ignoreVars, argVars, downloadVars, updateVars,
                    exitCode, lastDownload >>

\* the subprocesses of lines 336-337 over every key of repos_info
RECURSIVE refresh_log(_, _)
refresh_log(items, failAts) ==
    IF items = <<>> THEN <<>>
    ELSE get_repo_status(items[1].name, failAts[1]).log \o refresh_log(Tail(items), Tail(failAts))

\* lines 335-338: every status is read again and the final table is shown
UFinal ==
    /\ pc = "u_loop"
    /\ i > Len(repos_info)
    /\ \E failAts \in [1..Len(repos_info) -> 0..3] :
         /\ repos_info' = [k \in 1..Len(repos_info) |->
                              [name |-> repos_info[k].name,
                               info |-> get_repo_status(repos_info[k].name, failAts[k]).info]]
         /\ Finish(0, "none", refresh_log(repos_info, failAts)
                              \o << Ev("table", "status_updated", TRUE, <<>>) >>)
    /\ UNCHANGED << mode, runs, fsVars, ignoreVars, argVars, downloadVars, i, names >>

---------------------------------------------------------------------------
(* The tool: any sequence of at most MaxRuns runs of main() *)

Next ==
    \/ MainDownload
    \/ MainUpdate
    \/ DMakedirs
    \/ DFetch
    \/ DConfirm
    \/ DPromptFew
    \/ DGitignore
    \/ DLoop
    \/ DPanel
    \/ UExists
    \/ UInspect
    \/ UConfirm
    \/ ULoop
    \/ UFinal

Spec == Init /\ [][Next]_vars

---------------------------------------------------------------------------
(* One download run with the rich set of typed selections *)

MainDownloadOnce == main(FALSE, 1)

NextSelect ==
    \/ MainDownloadOnce
    \/ DMakedirs
    \/ DFetch
    \/ DConfirm
    \/ DPromptRich
    \/ DGitignore
    \/ DLoop
    \/ DPanel

SpecSelect == Init /\ [][NextSelect]_vars

---------------------------------------------------------------------------
(* download_selected_repos(repos, selected_indices, base_dir) called again and   *)
(* again with the same arguments; runs counts the calls, the log is kept across *)
(* them and a "call" record opens each call.                                    *)

CallMark == Ev("call", "download_selected_repos", TRUE, <<>>)

InitClone ==
    /\ pc = "c_loop"
    /\ mode = "download"
    /\ runs = 1
    /\ base = "dir"
    /\ entries \in [EntryNames -> EntryKinds]
    /\ gitignore = gitignore_absent
    /\ appended = 0
    /\ username = Octocat
    /\ cwd = WorkDir
    /\ repos \in Listings \ { <<>> }
    /\ selection = <<>>
    /\ selected_indices \in SeqsUpTo(1..Len(repos), MaxSel)
    /\ i = 1
    /\ names = <<>>
    /\ repos_info = <<>>
    /\ log = << CallMark >>
    /\ exitCode = -1
    /\ lastDownload = "none"

CLoop ==
    /\ pc = "c_loop"
    /\ download_iteration
    /\ UNCHANGED << pc, mode, runs, base, ignoreVars, argVars, downloadVars, updateVars,
                    exitCode, lastDownload >>

\* the call returns and the same call is made again
CAgain ==
    /\ pc = "c_loop"
    /\ i > Len(selected_indices)
    /\ runs < MaxRuns
    /\ runs' = runs + 1
    /\ i' = 1
    /\ log' = Append(log, CallMark)
    /\ UNCHANGED << pc, mode, fsVars, ignoreVars, argVars, downloadVars, updateVars,
                    exitCode, lastDownload >>

\* the last call returns
CDone ==
    /\ pc = "c_loop"
    /\ i > Len(selected_indices)
    /\ runs = MaxRuns
    /\ pc' = "exited"
    /\ UNCHANGED << mode, runs, fsVars, ignoreVars, argVars, downloadVars, i, updateVars,
                    log, exitCode, lastDownload >>

NextClone == CLoop \/ CAgain \/ CDone

SpecClone == InitClone /\ [][NextClone]_vars

---------------------------------------------------------------------------
(* update_gitignore(username) called any number of times for one account from *)
(* one working directory, starting from any short .gitignore; the log holds   *)
(* what the last call did.                                                    *)

IgnoreChars == { "a", "b", "/", "\n" }

Usernames == { << "a" >>, << "b", "a" >> }

\* the save directory itself, or a sibling of it
WorkDirs == { save_path, WorkDir }

InitIgnore ==
    /\ pc = "g_call"
    /\ mode = "download"
    /\ runs = 0
    /\ base = "dir"
    /\ entries = Empty
    /\ gitignore \in { gitignore_absent }
                     \cup { [exists |-> TRUE, content |-> c] : c \in SeqsUpTo(IgnoreChars, MaxLen) }
    /\ appended = 0
    /\ username \in Usernames
    /\ cwd \in WorkDirs
    /\ repos = <<>>
    /\ selection = <<>>
    /\ selected_indices = <<>>
    /\ i = 0
    /\ names = <<>>
    /\ repos_info = <<>>
    /\ log = <<>>
    /\ exitCode = -1
    /\ lastDownload = "none"

GCall ==
    /\ pc = "g_call"
    /\ \E inside \in BOOLEAN, io_ok \in BOOLEAN :
         LET after == update_gitignore(gitignore, username, cwd, inside, io_ok)
         IN  /\ gitignore' = after
             /\ appended' = IF after # gitignore THEN appended + 1 ELSE appended
             /\ log' = gitignore_events(gitignore, after, inside, io_ok)
    /\ UNCHANGED << pc, mode, runs, fsVars, argVars, downloadVars, i, updateVars,
                    exitCode, lastDownload >>

NextIgnore == GCall

SpecIgnore == InitIgnore /\ [][NextIgnore]_vars

---------------------------------------------------------------------------
(* Properties *)

\* the kinds of record in a log
Ops(l) == { l[k].op : k \in 1..Len(l) }

\* how many records of a log have this kind and name
Count(l, op, name) == Cardinality({ k \in 1..Len(l) : l[k].op = op /\ l[k].name = name })

LogHas(op, name) == \E k \in 1..Len(log) : log[k].op = op /\ log[k].name = name

Exited == pc = "exited"

\* the text has a token that is no integer, or an integer outside 1..n
BadSelection(text, n) ==
    LET tokens == Split(text, ",")
    IN  \E k \in 1..Len(tokens) :
            \/ ~int(tokens[k]).ok
            \/ int(tokens[k]).value < 1
            \/ int(tokens[k]).value > n

\* the text has a token that is an integer of 1..n
HasGoodToken(text, n) ==
    LET tokens == Split(text, ",")
    IN  \E k \in 1..Len(tokens) :
            int(tokens[k]).ok /\ int(tokens[k]).value \in 1..n

\* C1: in a download run where the operator typed a selection holding a token that is
\* no integer or an integer outside [1, N], the run has ended at the prompt with the
\* invalid-selection error and without any existence test, clone, skip or panel.
C1_InvalidSelectionClonesNothing ==
    (mode = "download" /\ LogHas("prompt", "Selection") /\ BadSelection(selection, Len(repos)))
        => /\ Exited
           /\ LogHas("error", "invalid_selection")
           /\ log[Len(log)].op = "error"
           /\ Ops(log) \cap { "git clone", "exists", "skip", "panel",
                              "git rev-parse --is-inside-work-tree" } = {}
           /\ selected_indices = <<>>

\* a rejected selection in which another token was a valid index
C1_Witness ==
    /\ mode = "download"
    /\ Exited
    /\ LogHas("error", "invalid_selection")
    /\ BadSelection(selection, Len(repos))
    /\ HasGoodToken(selection, Len(repos))

\* C3: a status query that succeeded with non-empty output is followed at once by the
\* failure result whose reason holds "uncommitted changes", and every pull comes
\* right after a status query of the same clone that succeeded with empty output.
C3_DirtyCloneIsNeverPulled ==
    /\ \A k \in 1..Len(log) :
         (log[k].op = "git status --porcelain" /\ log[k].ok /\ log[k].out # <<>>)
            => /\ k < Len(log)
               /\ log[k + 1].op = "update_result"
               /\ log[k + 1].name = log[k].name
               /\ ~log[k + 1].ok
               /\ Contains(log[k + 1].out, << "uncommitted", "changes" >>)
    /\ \A k \in 1..Len(log) :
         log[k].op = "git pull"
            => /\ k > 1
               /\ log[k - 1].op = "git status --porcelain"
               /\ log[k - 1].name = log[k].name
               /\ log[k - 1].ok
               /\ log[k - 1].out = <<>>

\* a dirty clone was met, and a later clone of the same run was pulled
C3_Witness ==
    \E k \in 1..Len(log), m \in 1..Len(log) :
        /\ k < m
        /\ log[k].op = "git status --porcelain" /\ log[k].ok /\ log[k].out # <<>>
        /\ log[m].op = "git pull"

\* the names the selection of the run stands for
SelectedNames == { repos[selected_indices[k]].name : k \in 1..Len(selected_indices) }

\* C4: a download run tests, clones and skips only repositories of its selection; with
\* the listing [Hello-World, Spoon-Knife], the typed selection "1" and no Hello-World
\* directory, exactly one clone is run, of Hello-World's URL, and nothing is tested or
\* cloned for Spoon-Knife.
C4_OnlySelectedAreCloned ==
    /\ mode = "download"
         => \A k \in 1..Len(log) :
              log[k].op \in { "exists", "git clone", "skip" } => log[k].name \in SelectedNames
    /\ ( /\ mode = "download"
         /\ Exited
         /\ repos = << HelloWorld, SpoonKnife >>
         /\ selection = << "1" >>
         /\ LogHas("panel", "Download Complete!")
         /\ \E k \in 1..Len(log) : log[k] = Ev("exists", "Hello-World", FALSE, <<>>) )
         => /\ Count(log, "git clone", "Hello-World") = 1
            /\ \A k \in 1..Len(log) :
                 log[k].op = "git clone" => log[k].out = << HelloWorld.clone_url >>
            /\ Count(log, "git clone", "Spoon-Knife") = 0
            /\ Count(log, "exists", "Spoon-Knife") = 0

\* the scenario ran and created the Hello-World directory
C4_Witness ==
    /\ mode = "download"
    /\ Exited
    /\ repos = << HelloWorld, SpoonKnife >>
    /\ selection = << "1" >>
    /\ Count(log, "git clone", "Hello-World") = 1
    /\ entries["Hello-World"] = "dir"
    /\ entries["Spoon-Knife"] = "none"

\* C6: an update run for an account whose base directory is absent runs no git
\* subcommand, shows no table and asks nothing, and ends having reported the error.
C6_MissingBaseDirectory ==
    (mode = "update" /\ base = "absent")
        => /\ Ops(log) \cap (GitOps \cup { "table", "confirm", "listdir" }) = {}
           /\ pc \in { "u_exists", "exited" }
           /\ Exited => LogHas("error", "no_repositories_found")

C6_Witness ==
    /\ mode = "update"
    /\ base = "absent"
    /\ Exited
    /\ LogHas("error", "no_repositories_found")

\* the run printed one of the fatal errors of the download flow
FatalDownloadError ==
    \/ LogHas("error", "user_not_found")
    \/ LogHas("error", "http_error")
    \/ LogHas("error", "exception")
    \/ LogHas("error", "could_not_create_directory")

SummaryPrinted == LogHas("panel", "Download Complete!")

\* C7 as stated, for the runs no exception escapes from: a finished run exits
\* non-zero exactly on account-not-found, another error of the download flow or a
\* failed creation of the base directory, and every other run exits 0 after printing
\* the completion summary.
C7_AsStated ==
    (Exited /\ ~LogHas("traceback", "OSError"))
        => /\ exitCode # 0 <=> (mode = "download" /\ FatalDownloadError)
           /\ exitCode = 0 => SummaryPrinted

\* C7 amended: a download run exits 1 exactly when it printed a fatal error, an update
\* run exits 1 exactly when an exception escaped it, every other run exits 0; the
\* completion summary is printed exactly by the download runs that went through the
\* clone loop, so the runs ending at an empty listing or an invalid selection and all
\* update runs exit without it.
C7_ExitStatus ==
    Exited =>
        /\ exitCode \in { 0, 1 }
        /\ mode = "download" => (exitCode = 1 <=> FatalDownloadError)
        /\ mode = "update" => (exitCode = 1 <=> LogHas("traceback", "OSError"))
        /\ SummaryPrinted <=> ( /\ mode = "download"
                                /\ exitCode = 0
                                /\ ~LogHas("notice", "no_public_repositories")
                                /\ ~LogHas("error", "invalid_selection") )
        /\ SummaryPrinted => log[Len(log)].op = "panel"

\* a run that exits 0 without the completion summary
C7_Witness ==
    /\ Exited
    /\ mode = "download"
    /\ exitCode = 0
    /\ LogHas("notice", "no_public_repositories")
    /\ ~SummaryPrinted

\* position of the first status table in the log of an update run, 0 if none yet
TablePos ==
    IF LogHas("table", "status")
    THEN CHOOSE k \in 1..Len(log) : log[k].op = "table" /\ log[k].name = "status"
    ELSE 0

\* the first inspection of directory n ran its three queries with exit status 0
InspectedOk(n) ==
    \E k \in 1..TablePos : log[k].op = "git log" /\ log[k].name = n /\ log[k].ok

\* the first inspection of directory n reported "absent"
InspectedAbsent(n) ==
    \E k \in 1..TablePos : log[k].op \in GitOps /\ log[k].name = n /\ ~log[k].ok

\* C9: once the operator has confirmed an update run, the loop cannot stop before the
\* final table; when the run is over every directory whose first inspection succeeded
\* had exactly one update attempt, whatever happened to the others, and every
\* directory inspected as absent had no status query and no pull.
C9_UpdateFailuresAreNotFatal ==
    /\ pc = "u_loop" => ENABLED (ULoop \/ UFinal)
    /\ (mode = "update" /\ LogHas("confirm", "update_all") /\ log[TablePos + 1].ok)
         => /\ \A n \in EntryNames :
                 InspectedAbsent(n) => /\ Count(log, "git status --porcelain", n) = 0
                                       /\ Count(log, "git pull", n) = 0
                                       /\ Count(log, "update_result", n) = 0
            /\ Exited
                 => /\ exitCode = 0
                    /\ log[Len(log)] = Ev("table", "status_updated", TRUE, <<>>)
                    /\ \A n \in EntryNames :
                         InspectedOk(n) => /\ Count(log, "git status --porcelain", n) = 1
                                           /\ Count(log, "update_result", n) = 1

\* two clones: the update of the first failed and the second was still attempted
C9_Witness ==
    /\ mode = "update"
    /\ Exited
    /\ \E k \in 1..Len(log), m \in 1..Len(log) :
         /\ k < m
         /\ log[k].op = "update_result" /\ ~log[k].ok
         /\ log[m].op = "update_result" /\ log[m].name # log[k].name

\* outcomes of a download run named by C10
EndedAfterMakedirs == { "not_found", "http_error", "error", "empty", "invalid" }

\* C10: the listing call is made only with the base directory created; once a download
\* run has ended in account-not-found, a transport error, an empty listing or an
\* invalid selection the base directory is present in every later state, and an
\* update run made then never reports 'no repositories found' but goes on to the
\* status table (empty when the directory holds no subdirectory) and the confirmation.
C10_BaseDirectorySurvives ==
    /\ (mode = "download" /\ LogHas("GET", "/users/{username}/repos"))
         => /\ base = "dir"
            /\ \E k \in 1..Len(log), m \in 1..Len(log) :
                 k < m /\ log[k] = Ev("makedirs", "base_dir", TRUE, <<>>) /\ log[m].op = "GET"
    /\ lastDownload \in EndedAfterMakedirs => base = "dir"
    /\ (mode = "update" /\ lastDownload \in EndedAfterMakedirs)
         => /\ ~LogHas("error", "no_repositories_found")
            /\ ~LogHas("traceback", "OSError")
            /\ pc \in { "u_loop", "exited" }
                 => /\ LogHas("table", "status")
                    /\ LogHas("confirm", "update_all")
                    /\ (\A n \in EntryNames : entries[n] # "dir") => repos_info = <<>>

\* an update run after a download run that found no such account: empty table, asked
C10_Witness ==
    /\ mode = "update"
    /\ lastDownload = "not_found"
    /\ entries = Empty
    /\ LogHas("table", "status")
    /\ LogHas("confirm", "update_all")
    /\ repos_info = <<>>

---------------------------------------------------------------------------
(* Properties of download_selected_repos called repeatedly (SpecClone) *)

\* positions of the records that open a call
Marks == { k \in 1..Len(log) : log[k] = CallMark }

\* number of the call that log position k belongs to
CallOf(k) == Cardinality({ m \in Marks : m <= k })

\* the records of call c, without its opening record
Segment(c) ==
    LET start == CHOOSE k \in Marks : CallOf(k) = c
        later == { k \in Marks : k > start }
        stop  == IF later = {} THEN Len(log) ELSE (CHOOSE k \in later : \A m \in later : k <= m) - 1
    IN  SubSeq(log, start + 1, stop)

IsExists(e) == e.op = "exists"

IsClone(e) == e.op = "git clone"

\* how often idx occurs in the selection
Occurrences(idx) == Cardinality({ k \in 1..Len(selected_indices) : selected_indices[k] = idx })

\* the directory of n was absent before the first call
AbsentAtStart(n) ==
    \E k \in 1..Len(log) :
        /\ log[k].op = "exists" /\ log[k].name = n /\ ~log[k].ok
        /\ \A j \in 1..(k - 1) : ~(log[j].op = "exists" /\ log[j].name = n)

EveryCloneCreated == \A k \in 1..Len(log) : log[k].op = "git clone" => log[k].ok

\* no selected repository had a directory before the first call
FreshBaseDirectory == \A n \in SelectedNames : AbsentAtStart(n)

\* C2 as stated, for a base directory holding none of the selected repositories: after
\* the calls with the same arguments every selected repository has been cloned
\* exactly once and the calls after the first cloned nothing.
C2_AsStated ==
    (Exited /\ FreshBaseDirectory)
        => /\ \A n \in SelectedNames : Count(log, "git clone", n) = 1
           /\ \A k \in 1..Len(log) : (log[k].op = "git clone") => CallOf(k) = 1

\* C2 amended: no clone is run for a repository after a clone that created its
\* directory, and a later call clones a repository only if every earlier test found
\* its directory absent; when every clone creates its directory, after the calls each
\* selected repository was cloned once if its directory was absent before the first
\* call and never if it was present, all in the first call, and every later call
\* emitted one skip notice per selected index.
C2_ClonedAtMostOnceWhenCreated ==
    /\ \A j \in 1..Len(log), k \in 1..Len(log) :
         (j < k /\ IsClone(log[j]) /\ IsClone(log[k]) /\ log[j].name = log[k].name)
            => ~log[j].ok
    /\ \A k \in 1..Len(log) :
         (IsClone(log[k]) /\ CallOf(k) >= 2)
            => \A j \in 1..(k - 1) : (IsExists(log[j]) /\ log[j].name = log[k].name) => ~log[j].ok
    /\ (Exited /\ EveryCloneCreated)
         => /\ \A n \in SelectedNames :
                 Count(log, "git clone", n) = IF AbsentAtStart(n) THEN 1 ELSE 0
            /\ \A k \in 1..Len(log) : IsClone(log[k]) => CallOf(k) = 1
            /\ \A c \in 2..runs :
                 Len(SelectSeq(Segment(c), LAMBDA e : e.op = "skip")) = Len(selected_indices)

\* the first call cloned a repository and the second call skipped it
C2_Witness ==
    /\ Exited
    /\ EveryCloneCreated
    /\ selected_indices # <<>>
    /\ \A n \in SelectedNames : Count(log, "git clone", n) = 1
    /\ \E k \in 1..Len(log) : log[k].op = "skip" /\ CallOf(k) = 2

\* C8 as stated, for a base directory holding none of the selected repositories: an
\* index that occurs k times in the selection has the clone subcommand run k times
\* for its repository in the first call.
C8_AsStated ==
    (Exited /\ FreshBaseDirectory)
        => \A idx \in 1..Len(repos) :
              Len(SelectSeq(Segment(1), LAMBDA e : e.op = "git clone" /\ e.name = repos[idx].name))
                 = Occurrences(idx)

\* C8 amended: each call tests the target directories in selection order, once per
\* occurrence of an index; an occurrence that finds the directory absent runs the
\* clone, one that finds it present is skipped, and a test finds the directory
\* present exactly when the previous test of it did or a clone since then created
\* it.  So an index occurring k times is cloned k times only while each clone fails
\* to create the directory.
C8_ChecksInSelectionOrder ==
    /\ \A c \in 1..runs :
         LET tests == SelectSeq(Segment(c), IsExists)
         IN  /\ Len(tests) <= Len(selected_indices)
             /\ \A k \in 1..Len(tests) : tests[k].name = repos[selected_indices[k]].name
             /\ (c < runs \/ Exited) => Len(tests) = Len(selected_indices)
    /\ \A k \in 1..Len(log) :
         /\ IsExists(log[k])
              => /\ k < Len(log)
                 /\ log[k + 1].name = log[k].name
                 /\ log[k + 1].op = IF log[k].ok THEN "skip" ELSE "git clone"
         /\ log[k].op \in { "git clone", "skip" } => IsExists(log[k - 1])
    /\ \A j \in 1..Len(log), k \in 1..Len(log) :
         ( /\ j < k
           /\ IsExists(log[j]) /\ IsExists(log[k]) /\ log[j].name = log[k].name
           /\ \A m \in (j + 1)..(k - 1) : ~(IsExists(log[m]) /\ log[m].name = log[j].name) )
            => (log[k].ok <=> (log[j].ok \/ log[j + 1].ok))

\* one call cloned the same repository twice, the first clone having failed
C8_Witness ==
    \E j \in 1..Len(log), k \in 1..Len(log) :
        /\ j < k
        /\ CallOf(j) = CallOf(k)
        /\ IsClone(log[j]) /\ IsClone(log[k])
        /\ log[j].name = log[k].name
        /\ \E m \in 1..Len(log) : log[m].op = "skip" /\ CallOf(m) = CallOf(k) /\ m > k

---------------------------------------------------------------------------
(* Properties of update_gitignore (SpecIgnore) *)

Pattern == ignore_pattern(username, cwd)

Lines(text) == { Split(text, "\n")[k] : k \in 1..Len(Split(text, "\n")) }

\* C5: a call of update_gitignore made while the pattern occurs anywhere in the file
\* leaves the file as it is, and over any number of calls for one account from one
\* working directory the pattern line is appended at most once.
C5_PatternAppendedAtMostOnce ==
    /\ [](appended <= 1)
    /\ [][Contains(read_gitignore(gitignore), Pattern) => gitignore' = gitignore]_vars

\* a call inside a work tree left alone a file that holds the pattern only inside a
\* longer line
C5_Witness ==
    /\ log = << Ev("git rev-parse --is-inside-work-tree", ".", TRUE, <<>>) >>
    /\ appended = 0
    /\ Contains(read_gitignore(gitignore), Pattern)
    /\ Pattern \notin Lines(read_gitignore(gitignore))

====
